---- MODULE Spec2Model ----
(***************************************************************************)
(* Model of comet_engine.py: VerifiedCitation, ShortcutNode, CometEngine   *)
(* and create_citation, together with a caller that drives the engine      *)
(* through its public methods.                                             *)
(*                                                                         *)
(* Python passes and stores objects by reference.  The objects that the    *)
(* engine shares with its caller are kept in heaps and named by address:   *)
(*   dicts  - the dict objects the caller builds (design_implications and  *)
(*            context bags), address 1..Len(dicts): the caller's metadata  *)
(*            bags come first, the context of each execution after them;   *)
(*   recs   - the result dicts execute_shortcut builds, address            *)
(*            1..Len(recs);                                                *)
(*   lists  - the list objects holding result dicts: the engine's          *)
(*            self.execution_log (LogRef) and the list the caller got from *)
(*            get_execution_log (CopyRef).                                 *)
(* str and float values are immutable in Python and are kept as values.    *)
(* confidence is a float; it is kept in tenths (5 is 0.5, 10 is 1.0).      *)
(***************************************************************************)
EXTENDS Integers, Sequences, FiniteSets, TLC

VARIABLES
    shortcuts,      \* self.shortcuts: node_id -> ShortcutNode
    lists,          \* list objects: lists[LogRef] is self.execution_log
    recs,           \* heap of result dicts built by execute_shortcut
    dicts,          \* heap of dict objects built by the caller
    citation,       \* the VerifiedCitation the caller holds (sequence of length <= 1)
    heldRef,        \* the list object the caller holds from get_execution_log
    ret,            \* the last call: its name, arguments and outcome
    calls,          \* history: arguments of the execute calls that found their id
    registered      \* history: per id, the node of the last register call that returned True

vars == <<shortcuts, lists, recs, dicts, citation, heldRef, ret, calls, registered>>

----------------------------------------------------------------------------
(* Bounds of the model *)

MaxLog == 2         \* execute calls that append are cut off at this log length

(* Inputs the caller draws from *)

Ids == {"", "a", "b"}
Patterns == {"", "p"}
Times == {1, 2}
Contents == {"", "a"}
SourceIds == {"s", "t"}
Methods == {"sha256", "md5"}
Hashes == {"", "h", "g"}
MetaDicts == << {}, {<<"k", 1>>} >>     \* the metadata bags the caller owns from the start

ConfZero == 0       \* 0.0 in tenths
ConfOne == 10       \* 1.0 in tenths

LogRef == "execution_log"
CopyRef == "copy"
NoRef == "none"
None == 0           \* the None result of execute_shortcut; result dicts have address >= 1
Fake == 0           \* an element the caller puts into its own list

----------------------------------------------------------------------------
(* hashlib.sha256(content.encode('utf-8')).hexdigest() on the model's contents *)

sha256_hexdigest(content) ==
    IF content = ""
    THEN "e3b0c44298fc1c149afbf4c8996fb92427ae41e4649b934ca495991b7852b855"
    ELSE "ca978112ca1bbdcafac231b39a23dc4da786eff8147c4e72b9807785afee48bb"

generate_content_hash(content) == sha256_hexdigest(content)

(* A __post_init__ that checks nothing *)

post_init_never_raises(content_hash) == FALSE

(* VerifiedCitation.__post_init__: raises ValueError on a falsy content_hash *)

post_init_raises(content_hash) == content_hash = ""

(* The dataclass constructor: the fields as given, then __post_init__. *)
(* The outcome is [raised, result]; result holds the new object, if any. *)

VerifiedCitation(source_id, content_hash, timestamp, verification_method) ==
    IF post_init_raises(content_hash)
    THEN [raised |-> TRUE, result |-> <<>>]
    ELSE [raised |-> FALSE,
          result |-> << [source_id |-> source_id,
                         content_hash |-> content_hash,
                         timestamp |-> timestamp,
                         verification_method |-> verification_method] >>]

create_citation(source_id, content, verification_method, now) ==
    VerifiedCitation(source_id, sha256_hexdigest(content), now, verification_method)

(* validate without its confidence check *)

validate_without_confidence(node) ==
    IF node.node_id = "" \/ node.pattern = ""
    THEN FALSE
    ELSE TRUE

(* validate with the interval open at both ends *)

validate_open_interval(node) ==
    IF ~(ConfZero < node.confidence /\ node.confidence < ConfOne)
    THEN FALSE
    ELSE IF node.node_id = "" \/ node.pattern = ""
    THEN FALSE
    ELSE TRUE

(* ShortcutNode.validate *)

validate(node) ==
    IF ~(ConfZero <= node.confidence /\ node.confidence <= ConfOne)
    THEN FALSE
    ELSE IF node.node_id = "" \/ node.pattern = ""
    THEN FALSE
    ELSE TRUE

----------------------------------------------------------------------------
(* CometEngine.__init__, and the caller with its metadata bags *)

Init ==
    /\ shortcuts = << >>
    /\ lists = [r \in {LogRef, CopyRef} |-> << >>]
    /\ recs = << >>
    /\ dicts = MetaDicts
    /\ citation = << >>
    /\ heldRef = NoRef
    /\ ret = [op |-> "init"]
    /\ calls = << >>
    /\ registered = << >>

(* register_shortcut storing the node before it validates it *)

register_shortcut_stores_first(node) ==
    /\ shortcuts' = [k \in DOMAIN shortcuts \cup {node.node_id} |->
                         IF k = node.node_id THEN node ELSE shortcuts[k]]
    /\ ret' = [op |-> "register", node |-> node, raised |-> FALSE,
               result |-> validate(node)]
    /\ UNCHANGED <<lists, recs>>

(* register_shortcut keeping the entry an id already has (setdefault) *)

register_shortcut_keeps_first(node) ==
    /\ IF ~validate(node)
       THEN /\ shortcuts' = shortcuts
            /\ ret' = [op |-> "register", node |-> node, raised |-> FALSE, result |-> FALSE]
       ELSE /\ shortcuts' = [k \in DOMAIN shortcuts \cup {node.node_id} |->
                                 IF k \in DOMAIN shortcuts THEN shortcuts[k] ELSE node]
            /\ ret' = [op |-> "register", node |-> node, raised |-> FALSE, result |-> TRUE]
    /\ UNCHANGED <<lists, recs>>

(* CometEngine.register_shortcut *)

register_shortcut(node) ==
    /\ IF ~validate(node)
       THEN /\ shortcuts' = shortcuts
            /\ ret' = [op |-> "register", node |-> node, raised |-> FALSE, result |-> FALSE]
       ELSE /\ shortcuts' = [k \in DOMAIN shortcuts \cup {node.node_id} |->
                                 IF k = node.node_id THEN node ELSE shortcuts[k]]
            /\ ret' = [op |-> "register", node |-> node, raised |-> FALSE, result |-> TRUE]
    /\ UNCHANGED <<lists, recs>>

(* The nodes the caller builds: ShortcutNode(node_id, pattern, action, *)
(* confidence, verified_citations, design_implications), the last four *)
(* fields taken together from a few shapes.                            *)

ACitation == create_citation("s", "a", "sha256", 1).result

Shapes ==
    { [action |-> "act", confidence |-> 0, verified_citations |-> << >>,
       design_implications |-> 1],
      [action |-> "alt", confidence |-> 10, verified_citations |-> ACitation,
       design_implications |-> 2],
      [action |-> "mid", confidence |-> 5, verified_citations |-> ACitation,
       design_implications |-> 1],
      [action |-> "act", confidence |-> -1, verified_citations |-> << >>,
       design_implications |-> 1],
      [action |-> "alt", confidence |-> 11, verified_citations |-> ACitation,
       design_implications |-> 2] }

ShortcutNode(id, pat, sh) ==
    [node_id |-> id, pattern |-> pat, action |-> sh.action,
     confidence |-> sh.confidence, verified_citations |-> sh.verified_citations,
     design_implications |-> sh.design_implications]

(* The caller builds a ShortcutNode and registers it. *)

Register ==
    \E id \in Ids, pat \in Patterns, sh \in Shapes :
        LET node == ShortcutNode(id, pat, sh)
        IN /\ heldRef = NoRef
           /\ register_shortcut(node)
           /\ registered' = IF ret'.result
                            THEN [k \in DOMAIN registered \cup {id} |->
                                     IF k = id THEN node ELSE registered[k]]
                            ELSE registered
           /\ UNCHANGED <<dicts, citation, heldRef, calls>>

(* The list comprehension of execute_shortcut: a new list of new dicts, *)
(* each with three of the citation's four fields *)

flatten_citations(cits) ==
    [i \in 1..Len(cits) |-> [source_id |-> cits[i].source_id,
                             content_hash |-> cits[i].content_hash,
                             verification_method |-> cits[i].verification_method]]

(* execute_shortcut logging the lookups that fail as well *)

execute_shortcut_logs_misses(node_id, context, now) ==
    LET found == node_id \in DOMAIN shortcuts
        result == [node_id |-> node_id,
                   action |-> IF found THEN shortcuts[node_id].action ELSE "",
                   confidence |-> IF found THEN shortcuts[node_id].confidence ELSE 0,
                   timestamp |-> now,
                   verified_citations |-> << >>,
                   design_implications |-> 1,
                   context |-> 1]
        addr == Len(recs) + 1
    IN /\ recs' = Append(recs, result)
       /\ lists' = [lists EXCEPT ![LogRef] = Append(@, addr)]
       /\ ret' = [op |-> "execute", node_id |-> node_id, context |-> context,
                  raised |-> FALSE, result |-> IF found THEN addr ELSE None]
       /\ UNCHANGED shortcuts

(* execute_shortcut putting the new result dict at the front of the log *)

execute_shortcut_inserts_first(node_id, context, now) ==
    IF node_id \notin DOMAIN shortcuts
    THEN /\ ret' = [op |-> "execute", node_id |-> node_id, context |-> context,
                    raised |-> FALSE, result |-> None]
         /\ UNCHANGED <<shortcuts, lists, recs>>
    ELSE LET node == shortcuts[node_id]
             result == [node_id |-> node_id,
                        action |-> node.action,
                        confidence |-> node.confidence,
                        timestamp |-> now,
                        verified_citations |->
                            [i \in 1..Len(node.verified_citations) |->
                                [source_id |-> node.verified_citations[i].source_id,
                                 content_hash |-> node.verified_citations[i].content_hash,
                                 verification_method |->
                                     node.verified_citations[i].verification_method]],
                        design_implications |-> node.design_implications,
                        context |-> context]
             addr == Len(recs) + 1
         IN /\ recs' = Append(recs, result)
            /\ lists' = [lists EXCEPT ![LogRef] = <<addr>> \o @]
            /\ ret' = [op |-> "execute", node_id |-> node_id, context |-> context,
                       raised |-> FALSE, result |-> addr]
            /\ UNCHANGED shortcuts

(* CometEngine.execute_shortcut; context is the address of the caller's *)
(* dict, now is datetime.utcnow().isoformat()                           *)

execute_shortcut(node_id, context, now) ==
    IF node_id \notin DOMAIN shortcuts
    THEN /\ ret' = [op |-> "execute", node_id |-> node_id, context |-> context,
                    raised |-> FALSE, result |-> None]
         /\ UNCHANGED <<shortcuts, lists, recs>>
    ELSE LET node == shortcuts[node_id]
             result == [node_id |-> node_id,
                        action |-> node.action,
                        confidence |-> node.confidence,
                        timestamp |-> now,
                        verified_citations |-> flatten_citations(node.verified_citations),
                        design_implications |-> node.design_implications,
                        context |-> context]
             addr == Len(recs) + 1
         IN /\ recs' = Append(recs, result)
            /\ lists' = [lists EXCEPT ![LogRef] = Append(@, addr)]
            /\ ret' = [op |-> "execute", node_id |-> node_id, context |-> context,
                       raised |-> FALSE, result |-> addr]
            /\ UNCHANGED shortcuts

(* The clock read by execute_shortcut ticks once per result dict. *)

utcnow == Len(recs) + 1

(* The caller executes an id with a dict literal as the context, as in   *)
(* execute_shortcut("log_test", {"run": 1}): a new dict object, which    *)
(* stays on the heap when the engine keeps it.                           *)

Execute ==
    \E id \in Ids :
        LET ctx == Len(dicts) + 1
            v == {<<"run", Len(recs) + 1>>}
        IN /\ heldRef = NoRef
           /\ id \in DOMAIN shortcuts => Len(recs) < MaxLog
           /\ execute_shortcut(id, ctx, utcnow)
           /\ IF ret'.result # None
              THEN /\ dicts' = Append(dicts, v)
                   /\ calls' = Append(calls, [node_id |-> id, context |-> ctx, value |-> v])
              ELSE UNCHANGED <<dicts, calls>>
           /\ UNCHANGED <<citation, heldRef, registered>>

(* export_schema counting the shortcuts instead of the log *)

export_schema_counts_shortcuts ==
    [schema_version |-> "1.0.0",
     shortcuts |-> [id \in DOMAIN shortcuts |->
                       [pattern |-> shortcuts[id].pattern,
                        action |-> shortcuts[id].action,
                        confidence |-> shortcuts[id].confidence,
                        verified_citations |-> Len(shortcuts[id].verified_citations),
                        design_implications |-> shortcuts[id].design_implications]],
     total_executions |-> Cardinality(DOMAIN shortcuts)]

(* CometEngine.export_schema *)

export_schema ==
    [schema_version |-> "1.0.0",
     shortcuts |-> [id \in DOMAIN shortcuts |->
                       [pattern |-> shortcuts[id].pattern,
                        action |-> shortcuts[id].action,
                        confidence |-> shortcuts[id].confidence,
                        verified_citations |-> Len(shortcuts[id].verified_citations),
                        design_implications |-> shortcuts[id].design_implications]],
     total_executions |-> Len(lists[LogRef])]

ExportSchema ==
    /\ ret' = [op |-> "export", raised |-> FALSE, result |-> export_schema]
    /\ UNCHANGED <<shortcuts, lists, recs, dicts, citation, heldRef, calls, registered>>

(* get_execution_log returning self.execution_log itself *)

get_execution_log_no_copy ==
    /\ ret' = [op |-> "getlog", raised |-> FALSE, result |-> LogRef]
    /\ UNCHANGED <<shortcuts, lists, recs>>

(* CometEngine.get_execution_log: self.execution_log.copy() is a new list *)
(* object with the same elements; the caller's previous list is dropped.  *)

get_execution_log ==
    /\ lists' = [lists EXCEPT ![CopyRef] = lists[LogRef]]
    /\ ret' = [op |-> "getlog", raised |-> FALSE, result |-> CopyRef]
    /\ UNCHANGED <<shortcuts, recs>>

GetLog ==
    /\ get_execution_log
    /\ heldRef' = ret'.result
    /\ UNCHANGED <<dicts, citation, calls, registered>>

(* The caller changes the list it has just got from get_execution_log:    *)
(* append, remove an element, replace an element.  It lets go of the list *)
(* before its next register or execute call.                              *)

RemoveAt(s, i) == [j \in 1..(Len(s) - 1) |-> IF j < i THEN s[j] ELSE s[j + 1]]

ListAppend ==
    /\ heldRef # NoRef
    /\ ret.op = "getlog"
    /\ lists' = [lists EXCEPT ![heldRef] = Append(@, Fake)]
    /\ ret' = [op |-> "caller"]
    /\ UNCHANGED <<shortcuts, recs, dicts, citation, heldRef, calls, registered>>

ListRemove ==
    /\ heldRef # NoRef
    /\ ret.op = "getlog"
    /\ \E i \in 1..Len(lists[heldRef]) :
           lists' = [lists EXCEPT ![heldRef] = RemoveAt(@, i)]
    /\ ret' = [op |-> "caller"]
    /\ UNCHANGED <<shortcuts, recs, dicts, citation, heldRef, calls, registered>>

ListReplace ==
    /\ heldRef # NoRef
    /\ ret.op = "getlog"
    /\ \E i \in 1..Len(lists[heldRef]) :
           lists' = [lists EXCEPT ![heldRef] = [@ EXCEPT ![i] = Fake]]
    /\ ret' = [op |-> "caller"]
    /\ UNCHANGED <<shortcuts, recs, dicts, citation, heldRef, calls, registered>>

DropList ==
    /\ heldRef # NoRef
    /\ heldRef' = NoRef
    /\ lists' = [lists EXCEPT ![CopyRef] = << >>]
    /\ ret' = [op |-> "caller"]
    /\ UNCHANGED <<shortcuts, recs, dicts, citation, calls, registered>>

Next ==
    \/ Register
    \/ Execute
    \/ ExportSchema
    \/ GetLog
    \/ ListAppend
    \/ ListRemove
    \/ ListReplace
    \/ DropList

Spec == Init /\ [][Next]_vars

----------------------------------------------------------------------------
(* Citations: the constructor and the helper applied to the caller's inputs *)

ConstructCitation ==
    \E sid \in SourceIds, h \in Hashes, t \in Times, m \in Methods :
        LET out == VerifiedCitation(sid, h, t, m)
        IN /\ ret' = [op |-> "VerifiedCitation", source_id |-> sid, content_hash |-> h,
                      timestamp |-> t, verification_method |-> m,
                      raised |-> out.raised, result |-> out.result]
           /\ citation' = IF out.raised THEN citation ELSE out.result
           /\ UNCHANGED <<shortcuts, lists, recs, dicts, heldRef, calls, registered>>

CreateCitation ==
    \E sid \in SourceIds, c \in Contents, m \in Methods, now \in Times :
        LET out == create_citation(sid, c, m, now)
        IN /\ ret' = [op |-> "create_citation", source_id |-> sid, content |-> c,
                      timestamp |-> now, verification_method |-> m,
                      raised |-> out.raised, result |-> out.result]
           /\ citation' = IF out.raised THEN citation ELSE out.result
           /\ UNCHANGED <<shortcuts, lists, recs, dicts, heldRef, calls, registered>>

NextCitation ==
    \/ ConstructCitation
    \/ CreateCitation

SpecCitation == Init /\ [][NextCitation]_vars

----------------------------------------------------------------------------
(* The caller changes, in place, objects it shares with the engine: a dict *)
(* it passed in its last call as context or as design_implications         *)
(* (d["changed"] = 1), and a result dict it got from execute_shortcut or   *)
(* through the list of get_execution_log (r["action"] = "changed").        *)

Changed == <<"changed", 1>>

(* The caller makes one such change in a run. *)

Untouched ==
    /\ \A d \in DOMAIN dicts : Changed \notin dicts[d]
    /\ \A a \in DOMAIN recs : recs[a].action # "changed"

HeldDicts ==
    IF ret.op = "execute" /\ ret.result # None
    THEN {ret.context, recs[ret.result].design_implications}
    ELSE IF ret.op = "register"
    THEN {ret.node.design_implications}
    ELSE {}

MutateDict ==
    \E d \in HeldDicts :
        /\ Untouched
        /\ dicts' = [dicts EXCEPT ![d] = @ \cup {Changed}]
        /\ ret' = [op |-> "caller"]
        /\ UNCHANGED <<shortcuts, lists, recs, citation, heldRef, calls, registered>>

HeldRecords ==
    (IF ret.op = "execute" /\ ret.result # None THEN {ret.result} ELSE {})
    \cup (IF heldRef # NoRef
          THEN {lists[heldRef][i] : i \in 1..Len(lists[heldRef])} \ {Fake}
          ELSE {})

MutateRecord ==
    \E a \in HeldRecords :
        /\ Untouched
        /\ recs' = [recs EXCEPT ![a].action = "changed"]
        /\ ret' = [op |-> "caller"]
        /\ UNCHANGED <<shortcuts, lists, dicts, citation, heldRef, calls, registered>>

NextCaller ==
    \/ Next
    \/ MutateDict
    \/ MutateRecord

SpecCaller == Init /\ [][NextCaller]_vars

----------------------------------------------------------------------------
(* Properties *)

execution_log == lists[LogRef]

(* The validation requirements as the specification words them *)
MeetsRequirements(node) ==
    /\ node.node_id # ""
    /\ node.pattern # ""
    /\ ConfZero <= node.confidence
    /\ node.confidence <= ConfOne

(* A result dict as a reader of the log sees it: its fields, with the *)
(* contents of the two dicts it refers to                             *)
View(a) ==
    IF a \in DOMAIN recs
    THEN [node_id |-> recs[a].node_id,
          action |-> recs[a].action,
          confidence |-> recs[a].confidence,
          timestamp |-> recs[a].timestamp,
          verified_citations |-> recs[a].verified_citations,
          design_implications |-> dicts[recs[a].design_implications],
          context |-> dicts[recs[a].context]]
    ELSE [fake |-> "entry"]

LogView == [k \in 1..Len(execution_log) |-> View(execution_log[k])]

SameCitations(flat, cits) ==
    /\ Len(flat) = Len(cits)
    /\ \A i \in 1..Len(cits) :
           /\ flat[i].source_id = cits[i].source_id
           /\ flat[i].content_hash = cits[i].content_hash
           /\ flat[i].verification_method = cits[i].verification_method

(* C1: in every reachable state every Shortcut stored in the registry *)
(* meets the validation requirements: non-empty id, non-empty pattern, *)
(* confidence in [0.0, 1.0].                                           *)
C1_RegistryValid ==
    \A id \in DOMAIN shortcuts : MeetsRequirements(shortcuts[id])

C1_Witness ==
    /\ ret.op = "register"
    /\ ~ret.result
    /\ Cardinality(DOMAIN shortcuts) = 2

(* C2: a register call with a shortcut that fails validation returns   *)
(* False without raising and leaves the mapping (the entry under the   *)
(* same id included) and the execution log as they were.               *)
C2_RejectChangesNothing ==
    [][ (ret'.op = "register" /\ ~MeetsRequirements(ret'.node))
        => /\ ret'.result = FALSE
           /\ ~ret'.raised
           /\ shortcuts' = shortcuts
           /\ execution_log' = execution_log
           /\ LogView' = LogView ]_vars

C2_Witness ==
    /\ ret.op = "register"
    /\ ~ret.result
    /\ ret.node.node_id \in DOMAIN shortcuts
    /\ shortcuts[ret.node.node_id] # ret.node
    /\ Len(execution_log) > 0

(* C3: an execute call with an id that is not a key of the registry     *)
(* returns None without raising; the log and the mapping are unchanged. *)
C3_MissChangesNothing ==
    [][ (ret'.op = "execute" /\ ret'.node_id \notin DOMAIN shortcuts)
        => /\ ret'.result = None
           /\ ~ret'.raised
           /\ shortcuts' = shortcuts
           /\ execution_log' = execution_log
           /\ LogView' = LogView ]_vars

C3_Witness ==
    /\ ret.op = "execute"
    /\ ret.result = None
    /\ shortcuts # << >>
    /\ Len(execution_log) > 0

(* C4: the log is append-only and in call order: an execute call on a  *)
(* registered id adds exactly one record at the end and leaves the     *)
(* earlier records an unchanged prefix, and the k-th record carries    *)
(* the id and the context of the k-th execute call that found its id.  *)
C4_KthRecordIsKthCall ==
    /\ Len(execution_log) = Len(calls)
    /\ \A k \in 1..Len(calls) :
           /\ execution_log[k] \in DOMAIN recs
           /\ recs[execution_log[k]].node_id = calls[k].node_id
           /\ recs[execution_log[k]].context = calls[k].context
           /\ View(execution_log[k]).context = calls[k].value

C4_AppendOnly ==
    /\ [][ (ret'.op = "execute" /\ ret'.node_id \in DOMAIN shortcuts)
           => /\ Len(execution_log') = Len(execution_log) + 1
              /\ SubSeq(execution_log', 1, Len(execution_log)) = execution_log
              /\ SubSeq(LogView', 1, Len(execution_log)) = LogView
              /\ execution_log'[Len(execution_log')] = ret'.result ]_vars
    /\ [][C4_KthRecordIsKthCall']_vars

C4_Witness ==
    /\ Len(execution_log) = 2
    /\ calls[1].node_id # calls[2].node_id
    /\ ret.op = "execute"
    /\ ret.result = None

(* C5: total_executions of export_schema is the number of execute calls *)
(* so far that found their id registered.                               *)
C5_TotalExecutions ==
    /\ export_schema.total_executions = Len(calls)
    /\ ret.op = "export" => ret.result.total_executions = Len(calls)

C5_Witness ==
    /\ ret.op = "export"
    /\ ret.result.total_executions = 2
    /\ Cardinality(DOMAIN shortcuts) = 1

(* C6: get_execution_log returns a copy: appending to, removing from or *)
(* replacing elements of the returned list leaves the engine's log as   *)
(* it was, and the list a get_execution_log call returns holds the      *)
(* records of the log, in order, whatever was done to earlier lists.    *)
C6_ReturnedListIsACopy ==
    [][ /\ ret'.op = "caller" => /\ execution_log' = execution_log
                                 /\ LogView' = LogView
        /\ ret'.op = "getlog" => /\ execution_log' = execution_log
                                 /\ lists'[ret'.result] = execution_log
                                 /\ Len(lists'[ret'.result]) = Len(calls)
                                 /\ ret'.result # LogRef ]_vars

C6_Witness ==
    /\ heldRef # NoRef
    /\ ret.op = "caller"
    /\ Len(execution_log) = 2
    /\ lists[heldRef] # execution_log

(* C7: a record of the log is immutable: its fields as read from the log *)
(* have the same values in every later state, whatever the caller does   *)
(* with the context, the metadata bag, the returned record or a record   *)
(* obtained through get_execution_log.                                   *)
C7_RecordsImmutable ==
    [][ \A k \in 1..Len(execution_log) : LogView'[k] = LogView[k] ]_vars

(* C8: registration overwrites, last write wins: a successful register *)
(* call on an id the registry holds replaces the entry by the new      *)
(* shortcut as a whole without growing the registry, and an execute on *)
(* an id returns the action, confidence, citations and metadata of the *)
(* shortcut registered last under it.                                  *)
C8_ExecuteUsesLastRegistered ==
    (ret.op = "execute" /\ ret.result # None)
    => /\ ret.node_id \in DOMAIN registered
       /\ ret.result \in DOMAIN recs
       /\ recs[ret.result].action = registered[ret.node_id].action
       /\ recs[ret.result].confidence = registered[ret.node_id].confidence
       /\ SameCitations(recs[ret.result].verified_citations,
                        registered[ret.node_id].verified_citations)
       /\ recs[ret.result].design_implications
              = registered[ret.node_id].design_implications

C8_LastWriteWins ==
    /\ [][ (ret'.op = "register" /\ ret'.result /\ ret'.node.node_id \in DOMAIN shortcuts)
           => /\ shortcuts'[ret'.node.node_id] = ret'.node
              /\ DOMAIN shortcuts' = DOMAIN shortcuts
              /\ \A k \in DOMAIN shortcuts \ {ret'.node.node_id} :
                     shortcuts'[k] = shortcuts[k] ]_vars
    /\ [][C8_ExecuteUsesLastRegistered']_vars

C8_Witness ==
    /\ ret.op = "execute"
    /\ ret.result # None
    /\ \E k \in 1..Len(execution_log) :
           /\ View(execution_log[k]).node_id = ret.node_id
           /\ View(execution_log[k]).action # View(ret.result).action
           /\ View(execution_log[k]).confidence # View(ret.result).confidence

(* C9: register returns True exactly when the id and the pattern are     *)
(* non-empty and 0.0 <= confidence <= 1.0, both ends included; when it   *)
(* returns True the registry maps the shortcut's id to that shortcut.    *)
C9_RegisterIffValid ==
    ret.op = "register"
    => /\ ret.result <=> MeetsRequirements(ret.node)
       /\ ret.result => /\ ret.node.node_id \in DOMAIN shortcuts
                        /\ shortcuts[ret.node.node_id] = ret.node

C9_Witness ==
    /\ ret.op = "register"
    /\ ret.result
    /\ ret.node.confidence = ConfOne
    /\ \E id \in DOMAIN shortcuts : shortcuts[id].confidence = ConfZero

(* C10: constructing a Citation with an empty digest raises and yields   *)
(* no Citation; with a non-empty digest it succeeds and the fields read  *)
(* back as given; every Citation made by the constructor or by           *)
(* create_citation has a non-empty digest.                               *)
C10_CitationHasDigest ==
    /\ ret.op = "VerifiedCitation"
       => /\ ret.raised <=> ret.content_hash = ""
          /\ ret.raised => ret.result = << >>
          /\ ~ret.raised => /\ Len(ret.result) = 1
                            /\ ret.result[1].source_id = ret.source_id
                            /\ ret.result[1].content_hash = ret.content_hash
                            /\ ret.result[1].timestamp = ret.timestamp
                            /\ ret.result[1].verification_method = ret.verification_method
    /\ ret.op = "create_citation"
       => /\ ~ret.raised
          /\ Len(ret.result) = 1
          /\ ret.result[1].content_hash # ""
          /\ ret.result[1].source_id = ret.source_id
          /\ ret.result[1].verification_method = ret.verification_method
    /\ \A i \in 1..Len(citation) : citation[i].content_hash # ""

C10_Witness ==
    /\ ret.op = "VerifiedCitation"
    /\ ret.raised
    /\ citation # << >>
    /\ citation[1].content_hash = sha256_hexdigest("")

====
